---- MODULE Spec2Model ----
(***************************************************************************)
(* Model of the tip calculator component (tip_calculator_frontend/src/     *)
(* App.js).  The component state is five pieces of React state and one     *)
(* ref; every displayed value is derived from them on each render.  The    *)
(* values the source wraps in useMemo are kept in memo, each with the      *)
(* dependency list of the render that computed it; a render recomputes a   *)
(* value only when its dependency list has changed.  The earlier version   *)
(* of the component (without split and rounding) runs beside it on the     *)
(* same bill, preset and custom-tip events.                                *)
(*                                                                         *)
(* Representation.                                                         *)
(*  - An input text is a sequence of one-character strings, so that        *)
(*    Number(text) and String(n) are real conversions.                     *)
(*  - The result of Number(text) is a record [fin, val]: fin = FALSE is    *)
(*    NaN, and val counts hundredths (UNIT = 100) of a currency unit, of   *)
(*    a percent or of a person.  The input texts of the model carry at     *)
(*    most FracDigits fractional digits, so val is exact.                  *)
(*  - A monetary amount counts millionths (AMT = 100 * UNIT * UNIT) of a   *)
(*    currency unit, so that bill * (percent / 100) is the exact product   *)
(*    of two counts of hundredths.  The double arithmetic of the source    *)
(*    is modelled by this exact arithmetic.                                *)
(***************************************************************************)
EXTENDS Integers, Sequences, FiniteSets, TLC

(* ---------------------------------------------------------------------- *)
(* Bounds of the model                                                    *)
(* ---------------------------------------------------------------------- *)
MaxBill == 2
MaxCustom == 1
MaxPeople == 2

(* ---------------------------------------------------------------------- *)
(* Program constants                                                      *)
(* ---------------------------------------------------------------------- *)
TIP_PRESETS == {10, 15, 18, 20}

ROUNDING_MODES == [NONE |-> "none", TIP |-> "tip", TOTAL |-> "total"]

RoundingValues == {ROUNDING_MODES.NONE, ROUNDING_MODES.TIP, ROUNDING_MODES.TOTAL}

DefaultTip == 15

FracDigits == 2

UNIT == 10 * 10

AMT == 100 * UNIT * UNIT

(* A count of hundredths as a monetary amount. *)
Amount(v) == v * (AMT \div UNIT)

(* ---------------------------------------------------------------------- *)
(* Numbers and texts                                                      *)
(* ---------------------------------------------------------------------- *)
NaN == [fin |-> FALSE, val |-> 0]

Num(v) == [fin |-> TRUE, val |-> v]

DigitChars == {"0", "1", "2", "3", "4", "5", "6", "7", "8", "9"}

DigitVal(c) ==
  CASE c = "0" -> 0 [] c = "1" -> 1 [] c = "2" -> 2 [] c = "3" -> 3
    [] c = "4" -> 4 [] c = "5" -> 5 [] c = "6" -> 6 [] c = "7" -> 7
    [] c = "8" -> 8 [] c = "9" -> 9

DigitChar(d) ==
  CASE d = 0 -> "0" [] d = 1 -> "1" [] d = 2 -> "2" [] d = 3 -> "3"
    [] d = 4 -> "4" [] d = 5 -> "5" [] d = 6 -> "6" [] d = 7 -> "7"
    [] d = 8 -> "8" [] d = 9 -> "9"

RECURSIVE Pow10(_)
Pow10(n) == IF n = 0 THEN 1 ELSE 10 * Pow10(n - 1)

AllDigits(s) == \A i \in 1..Len(s) : s[i] \in DigitChars

RECURSIVE DigitsValue(_)
DigitsValue(s) ==
  IF s = <<>> THEN 0
  ELSE 10 * DigitsValue(SubSeq(s, 1, Len(s) - 1)) + DigitVal(s[Len(s)])

(* Position of the first "." of s, or Len(s) + 1 when there is none. *)
DotPos(s) ==
  IF \E i \in 1..Len(s) : s[i] = "."
  THEN CHOOSE i \in 1..Len(s) : s[i] = "." /\ \A j \in 1..(i - 1) : s[j] # "."
  ELSE Len(s) + 1

(* Unsigned decimal literal: digits, optional ".", digits; one digit at least. *)
UnsignedNumber(s) ==
  LET p == DotPos(s)
      ip == SubSeq(s, 1, p - 1)
      fp == SubSeq(s, p + 1, Len(s))
  IN IF AllDigits(ip) /\ AllDigits(fp) /\ Len(ip) + Len(fp) >= 1
        /\ Len(fp) <= FracDigits
     THEN Num(DigitsValue(ip) * UNIT + DigitsValue(fp) * Pow10(FracDigits - Len(fp)))
     ELSE NaN

(* Number(value) of JavaScript: "" and null are 0, a decimal literal with an
   optional sign is its value, anything else (undefined too) is NaN. *)
Number(s) ==
  IF s = <<>> \/ s = <<"null">> THEN Num(0)
  ELSE IF s[1] = "-"
       THEN LET u == UnsignedNumber(Tail(s))
            IN IF u.fin THEN Num(0 - u.val) ELSE NaN
       ELSE IF s[1] = "+" THEN UnsignedNumber(Tail(s))
       ELSE UnsignedNumber(s)

(* String(n) of JavaScript on a non-negative integer n. *)
RECURSIVE String(_)
String(n) ==
  IF n < 10 THEN <<DigitChar(n)>>
  ELSE String(n \div 10) \o <<DigitChar(n % 10)>>

Max(a, b) == IF a >= b THEN a ELSE b

RECURSIVE Gcd(_, _)
Gcd(a, b) == IF b = 0 THEN a ELSE Gcd(b, a % b)

(* The quotient a / b of a number a >= 0 by a count b >= 1, as the fraction
   num / den in lowest terms. *)
Quotient(a, b) ==
  LET g == Gcd(a, b) IN [num |-> a \div g, den |-> b \div g]

(* Math.floor of a count of hundredths; the result is an integer, not scaled. *)
Floor(v) == v \div UNIT

(* null and undefined, which are not texts *)
Null == <<"null">>

Undefined == <<"undefined">>

coerceNumber_abs(value) ==
  IF value = <<>> \/ value = Null \/ value = Undefined THEN 0
  ELSE LET n == Number(value)
       IN IF n.fin THEN (IF n.val < 0 THEN 0 - n.val ELSE n.val) ELSE 0

coerceNumber(value) ==
  IF value = <<>> \/ value = Null \/ value = Undefined THEN 0
  ELSE LET n == Number(value) IN IF n.fin THEN n.val ELSE 0

roundToWholeCurrency_halfDown(amount) ==
  ((amount + AMT \div 2 - 1) \div AMT) * AMT

roundToWholeCurrency_floor(amount) == (amount \div AMT) * AMT

(* Math.round rounds to the nearest integer, a half towards +infinity. *)
roundToWholeCurrency(amount) == ((amount + AMT \div 2) \div AMT) * AMT

(* ---------------------------------------------------------------------- *)
(* Input texts the events carry                                           *)
(* ---------------------------------------------------------------------- *)
BillTexts ==
  {<<>>, <<"a", "b", "c">>, <<"-", "1", "0">>, String(10), String(33), String(100)}
    \cup {String(k) : k \in 0..MaxBill}
    \cup {String(k) \o <<".", d>> : k \in 0..MaxBill, d \in {"4", "5"}}

CustomTexts ==
  {<<>>, <<"x", "y", "z">>, <<"-", "5">>, <<"2", ".", "5">>, String(25)}
    \cup {String(k) : k \in 0..MaxCustom}

PeopleTexts ==
  {<<>>, <<"a", "b", "c">>, <<"0">>, <<"0", ".", "5">>, <<"2", ".", "7">>}
    \cup {String(k) : k \in 1..MaxPeople}

(* ---------------------------------------------------------------------- *)
(* State                                                                  *)
(* ---------------------------------------------------------------------- *)
VARIABLES billInput, selectedTip, customTipInput, lastPresetTipRef,
          peopleInput, roundingMode, memo, event, clicked, earlier

vars == <<billInput, selectedTip, customTipInput, lastPresetTipRef,
          peopleInput, roundingMode, memo, event, clicked, earlier>>

(* memo holds the useMemo cells of the component; event is the event handled
   last (its handler and the value it carried); clicked is the percentage of
   the preset button clicked last; earlier is the state of the earlier
   version of the component. *)

(* ---------------------------------------------------------------------- *)
(* Rendering with useMemo                                                 *)
(* ---------------------------------------------------------------------- *)
(* useMemo(() => value, deps) on the cell of the previous render *)
UseMemo(cell, deps, value) ==
  IF cell.deps = deps THEN cell ELSE [deps |-> deps, val |-> value]

(* the cells before the first render *)
NoCell == [deps |-> <<>>, val |-> 0]

Unmounted ==
  [billRaw |-> NoCell, customTipRaw |-> NoCell, peopleRaw |-> NoCell,
   baseTipAmount |-> NoCell, baseTotalAmount |-> NoCell, amounts |-> NoCell,
   perPersonTip |-> NoCell, perPersonTotal |-> NoCell]

(* the body of the useMemo that yields { tipAmount, totalAmount } *)
Amounts(mode, baseTip, baseTotal, bill) ==
  IF mode = ROUNDING_MODES.TIP
  THEN LET rTip == roundToWholeCurrency(baseTip)
       IN [tipAmount |-> rTip, totalAmount |-> Amount(bill) + rTip]
  ELSE IF mode = ROUNDING_MODES.TOTAL
  THEN LET rTotal == roundToWholeCurrency(baseTotal)
           implied == Max(0, rTotal - Amount(bill))
       IN [tipAmount |-> implied, totalAmount |-> Amount(bill) + implied]
  ELSE [tipAmount |-> baseTip, totalAmount |-> baseTotal]

AmountsDeps_noMode(mode, baseTip, baseTotal, bill) == <<baseTip, baseTotal, bill>>

(* the dependency list of that useMemo *)
AmountsDeps(mode, baseTip, baseTotal, bill) == <<mode, baseTip, baseTotal, bill>>

(* One render of App: out is the cells after it, from the cells m of the
   render before and the current state. *)
Renders(m, bill, preset, custom, people, mode, out) ==
  \E cBillRaw \in {UseMemo(m.billRaw, <<bill>>, coerceNumber(bill))} :
  \E cCustomTipRaw \in {UseMemo(m.customTipRaw, <<custom>>, coerceNumber(custom))} :
  \E cPeopleRaw \in {UseMemo(m.peopleRaw, <<people>>, coerceNumber(people))} :
  \E active \in {IF custom # <<>> THEN cCustomTipRaw.val ELSE preset * UNIT} :
  \E forCalc \in {Max(0, cBillRaw.val)} :
  \E pctForCalc \in {Max(0, active)} :
  \E cBaseTip \in {UseMemo(m.baseTipAmount, <<forCalc, pctForCalc>>,
                           forCalc * pctForCalc)} :
  \E cBaseTotal \in {UseMemo(m.baseTotalAmount, <<forCalc, cBaseTip.val>>,
                             Amount(forCalc) + cBaseTip.val)} :
  \E clamped \in {Max(1, Floor(cPeopleRaw.val))} :
  \E cAmounts \in {UseMemo(m.amounts,
                           AmountsDeps(mode, cBaseTip.val, cBaseTotal.val, forCalc),
                           Amounts(mode, cBaseTip.val, cBaseTotal.val, forCalc))} :
  \E cTipPP \in {UseMemo(m.perPersonTip, <<cAmounts.val.tipAmount, clamped>>,
                         Quotient(cAmounts.val.tipAmount, clamped))} :
  \E cTotalPP \in {UseMemo(m.perPersonTotal, <<cAmounts.val.totalAmount, clamped>>,
                           Quotient(cAmounts.val.totalAmount, clamped))} :
    out = [billRaw |-> cBillRaw, customTipRaw |-> cCustomTipRaw,
           peopleRaw |-> cPeopleRaw, baseTipAmount |-> cBaseTip,
           baseTotalAmount |-> cBaseTotal, amounts |-> cAmounts,
           perPersonTip |-> cTipPP, perPersonTotal |-> cTotalPP]

(* the render that follows the state update of an event handler *)
Rerender ==
  Renders(memo, billInput', selectedTip', customTipInput', peopleInput',
          roundingMode', memo')

(* ---------------------------------------------------------------------- *)
(* The earlier version of App, without split and rounding                 *)
(* ---------------------------------------------------------------------- *)
earlierInit ==
  [billInput |-> <<>>, selectedTip |-> 15, customTipInput |-> <<>>,
   lastPresetTipRef |-> 15]

earlier_onBillChange(o, value) == [o EXCEPT !.billInput = value]

earlier_onSelectPreset(o, pct) ==
  [o EXCEPT !.selectedTip = pct, !.lastPresetTipRef = pct,
            !.customTipInput = <<>>]

earlier_onCustomTipChange(o, next) ==
  [o EXCEPT !.customTipInput = next,
            !.selectedTip = IF next = <<>> THEN o.lastPresetTipRef
                            ELSE o.selectedTip]

(* The earlier version handles the event just dispatched; it has no people
   field and no rounding selector, so those events do not reach it. *)
EarlierStep ==
  earlier' =
    IF event'.name = "onBillChange"
    THEN earlier_onBillChange(earlier, event'.value)
    ELSE IF event'.name = "onSelectPreset"
    THEN earlier_onSelectPreset(earlier, event'.value)
    ELSE IF event'.name = "onCustomTipChange"
    THEN earlier_onCustomTipChange(earlier, event'.value)
    ELSE earlier

(* what a render of the earlier version shows (its values recomputed) *)
earlierShown ==
  LET eBillRaw == coerceNumber(earlier.billInput)
      eCustomTipRaw == coerceNumber(earlier.customTipInput)
      eIsCustomActive == earlier.customTipInput # <<>>
      eActive == IF eIsCustomActive THEN eCustomTipRaw
                 ELSE earlier.selectedTip * UNIT
      eBillForCalc == Max(0, eBillRaw)
      ePctForCalc == Max(0, eActive)
      eTipAmount == eBillForCalc * ePctForCalc
      eTotalAmount == Amount(eBillForCalc) + eTipAmount
  IN [tipAmount |-> eTipAmount,
      totalAmount |-> eTotalAmount,
      chipPercent |-> Max(0, eActive),
      pressed |-> {pct \in TIP_PRESETS :
                     ~eIsCustomActive /\ earlier.selectedTip = pct},
      billHasError |-> eBillRaw < 0,
      tipHasError |-> eActive < 0]

Init ==
  /\ billInput = <<>>
  /\ selectedTip = DefaultTip
  /\ customTipInput = <<>>
  /\ lastPresetTipRef = DefaultTip
  /\ peopleInput = <<"1">>
  /\ roundingMode = ROUNDING_MODES.NONE
  /\ Renders(Unmounted, billInput, selectedTip, customTipInput, peopleInput,
             roundingMode, memo)
  /\ event = [name |-> "render", value |-> <<>>]
  /\ clicked = DefaultTip
  /\ earlier = earlierInit

(* ---------------------------------------------------------------------- *)
(* Derived values of a render                                             *)
(* ---------------------------------------------------------------------- *)
billRaw == coerceNumber(billInput)

customTipRaw == coerceNumber(customTipInput)

peopleRaw == coerceNumber(peopleInput)

isCustomActive_truthy == customTipRaw # 0

isCustomActive == customTipInput # <<>>

activeTipPercent == IF isCustomActive THEN customTipRaw ELSE selectedTip * UNIT

billForCalc_noClamp == billRaw

billForCalc == Max(0, billRaw)

(* the bill used for calculation, as a monetary amount *)
billAmount == Amount(billForCalc)

tipPercentForCalc_noClamp == activeTipPercent

tipPercentForCalc == Max(0, activeTipPercent)

baseTipAmount_presetOnly == billForCalc * (selectedTip * UNIT)

baseTipAmount == billForCalc * tipPercentForCalc

baseTotalAmount_addsPercent == billAmount + Amount(tipPercentForCalc)

baseTotalAmount == billAmount + baseTipAmount

billHasError_orZero == billRaw <= 0

billHasError == billRaw < 0

tipHasError == activeTipPercent < 0

peopleClamped == Max(1, Floor(peopleRaw))

peopleHasError == peopleRaw < 1 * UNIT

roundedTip == roundToWholeCurrency(baseTipAmount)

roundedTotal == roundToWholeCurrency(baseTotalAmount)

impliedTip_noFloor == roundedTotal - billAmount

impliedTip == Max(0, roundedTotal - billAmount)

tipAmount_roundedTotalAsTip ==
  IF roundingMode = ROUNDING_MODES.TIP THEN roundedTip
  ELSE IF roundingMode = ROUNDING_MODES.TOTAL THEN roundedTotal
  ELSE baseTipAmount

tipAmount ==
  IF roundingMode = ROUNDING_MODES.TIP THEN roundedTip
  ELSE IF roundingMode = ROUNDING_MODES.TOTAL THEN impliedTip
  ELSE baseTipAmount

totalAmount_roundedTotal ==
  IF roundingMode = ROUNDING_MODES.TIP THEN billAmount + roundedTip
  ELSE IF roundingMode = ROUNDING_MODES.TOTAL THEN roundedTotal
  ELSE baseTotalAmount

totalAmount ==
  IF roundingMode = ROUNDING_MODES.TIP THEN billAmount + roundedTip
  ELSE IF roundingMode = ROUNDING_MODES.TOTAL THEN billAmount + impliedTip
  ELSE baseTotalAmount

perPersonTip_fromBase == Quotient(baseTipAmount, peopleClamped)

perPersonTip == Quotient(tipAmount, peopleClamped)

perPersonTotal == Quotient(totalAmount, peopleClamped)

(* the percentage the "Active tip percentage" chip shows *)
chipPercent == Max(0, activeTipPercent)

resultRows_always ==
  {"Tip Amount", "Total", "Tip / person", "Total / person"}

(* the rows of the results panel *)
resultRows ==
  {"Tip Amount", "Total"}
    \cup (IF peopleClamped > 1 THEN {"Tip / person", "Total / person"} ELSE {})

(* what the render shows, read from the useMemo cells *)
shown ==
  LET active == IF customTipInput # <<>> THEN memo.customTipRaw.val
                ELSE selectedTip * UNIT
      clamped == Max(1, Floor(memo.peopleRaw.val))
  IN [tipAmount |-> memo.amounts.val.tipAmount,
      totalAmount |-> memo.amounts.val.totalAmount,
      perPersonTip |-> memo.perPersonTip.val,
      perPersonTotal |-> memo.perPersonTotal.val,
      chipPercent |-> Max(0, active),
      pressed |-> {pct \in TIP_PRESETS : customTipInput = <<>> /\ selectedTip = pct},
      billHasError |-> memo.billRaw.val < 0,
      tipHasError |-> active < 0,
      peopleHasError |-> memo.peopleRaw.val < 1 * UNIT,
      perPersonRows |-> clamped > 1]

pressed_ignoreCustom(pct) == selectedTip = pct

pressed(pct) == ~isCustomActive /\ selectedTip = pct

(* ---------------------------------------------------------------------- *)
(* Event handlers                                                         *)
(* ---------------------------------------------------------------------- *)
onBillChange(value) ==
  /\ billInput' = value
  /\ event' = [name |-> "onBillChange", value |-> value]
  /\ UNCHANGED <<selectedTip, customTipInput, lastPresetTipRef, peopleInput,
                 roundingMode, clicked>>
  /\ Rerender
  /\ EarlierStep

onSelectPreset_keepCustom(pct) ==
  /\ selectedTip' = pct
  /\ lastPresetTipRef' = pct
  /\ clicked' = pct
  /\ event' = [name |-> "onSelectPreset", value |-> pct]
  /\ UNCHANGED <<billInput, customTipInput, peopleInput, roundingMode>>
  /\ Rerender
  /\ EarlierStep

onSelectPreset_noRef(pct) ==
  /\ selectedTip' = pct
  /\ customTipInput' = <<>>
  /\ clicked' = pct
  /\ event' = [name |-> "onSelectPreset", value |-> pct]
  /\ UNCHANGED <<billInput, lastPresetTipRef, peopleInput, roundingMode>>
  /\ Rerender
  /\ EarlierStep

onSelectPreset(pct) ==
  /\ selectedTip' = pct
  /\ lastPresetTipRef' = pct
  /\ customTipInput' = <<>>
  /\ clicked' = pct
  /\ event' = [name |-> "onSelectPreset", value |-> pct]
  /\ UNCHANGED <<billInput, peopleInput, roundingMode>>
  /\ Rerender
  /\ EarlierStep

onCustomTipChange_resetRef(next) ==
  /\ customTipInput' = next
  /\ selectedTip' = IF next = <<>> THEN lastPresetTipRef ELSE selectedTip
  /\ lastPresetTipRef' = IF next = <<>> THEN DefaultTip ELSE lastPresetTipRef
  /\ event' = [name |-> "onCustomTipChange", value |-> next]
  /\ UNCHANGED <<billInput, peopleInput, roundingMode, clicked>>
  /\ Rerender
  /\ EarlierStep

onCustomTipChange(next) ==
  /\ customTipInput' = next
  /\ selectedTip' = IF next = <<>> THEN lastPresetTipRef ELSE selectedTip
  /\ event' = [name |-> "onCustomTipChange", value |-> next]
  /\ UNCHANGED <<billInput, lastPresetTipRef, peopleInput, roundingMode, clicked>>
  /\ Rerender
  /\ EarlierStep

onPeopleChange_raw(raw) ==
  /\ peopleInput' = raw
  /\ event' = [name |-> "onPeopleChange", value |-> raw]
  /\ UNCHANGED <<billInput, selectedTip, customTipInput, lastPresetTipRef,
                 roundingMode, clicked>>
  /\ Rerender
  /\ EarlierStep

onPeopleChange_noFloor(raw) ==
  /\ LET n == Number(raw)
     IN peopleInput' = IF ~n.fin \/ n.val <= 0 THEN <<"1">> ELSE raw
  /\ event' = [name |-> "onPeopleChange", value |-> raw]
  /\ UNCHANGED <<billInput, selectedTip, customTipInput, lastPresetTipRef,
                 roundingMode, clicked>>
  /\ Rerender
  /\ EarlierStep

onPeopleChange(raw) ==
  /\ LET n == Number(raw)
     IN peopleInput' = IF ~n.fin \/ n.val <= 0
                       THEN <<"1">>
                       ELSE String(Max(1, Floor(n.val)))
  /\ event' = [name |-> "onPeopleChange", value |-> raw]
  /\ UNCHANGED <<billInput, selectedTip, customTipInput, lastPresetTipRef,
                 roundingMode, clicked>>
  /\ Rerender
  /\ EarlierStep

onPeopleBlur_inverted(raw) ==
  /\ LET n == Number(raw)
     IN peopleInput' = IF ~n.fin \/ n.val >= 1 * UNIT THEN <<"1">> ELSE peopleInput
  /\ event' = [name |-> "onPeopleBlur", value |-> raw]
  /\ UNCHANGED <<billInput, selectedTip, customTipInput, lastPresetTipRef,
                 roundingMode, clicked>>
  /\ Rerender
  /\ EarlierStep

onPeopleBlur(raw) ==
  /\ LET n == Number(raw)
     IN peopleInput' = IF ~n.fin \/ n.val < 1 * UNIT THEN <<"1">> ELSE peopleInput
  /\ event' = [name |-> "onPeopleBlur", value |-> raw]
  /\ UNCHANGED <<billInput, selectedTip, customTipInput, lastPresetTipRef,
                 roundingMode, clicked>>
  /\ Rerender
  /\ EarlierStep

onRoundingModeChange(value) ==
  /\ roundingMode' = value
  /\ event' = [name |-> "onRoundingModeChange", value |-> value]
  /\ UNCHANGED <<billInput, selectedTip, customTipInput, lastPresetTipRef,
                 peopleInput, clicked>>
  /\ Rerender
  /\ EarlierStep

Next ==
  \/ \E value \in BillTexts : onBillChange(value)
  \/ \E pct \in TIP_PRESETS : onSelectPreset(pct)
  \/ \E next \in CustomTexts : onCustomTipChange(next)
  \/ \E raw \in PeopleTexts : onPeopleChange(raw)
  \/ \E raw \in PeopleTexts : onPeopleBlur(raw)
  \/ \E value \in RoundingValues : onRoundingModeChange(value)

Spec == Init /\ [][Next]_vars

(* ---------------------------------------------------------------------- *)
(* Properties                                                             *)
(* ---------------------------------------------------------------------- *)

(* The whole amount nearest to the amount x >= 0, an exact half going up. *)
NearestWhole(x) ==
  CHOOSE r \in {k * AMT : k \in 0..(x \div AMT + 1)} :
    2 * r - AMT <= 2 * x /\ 2 * x < 2 * r + AMT

(* The inputs of the claims about bill >= 0 and tip percent >= 0. *)
ValidInputs == billRaw >= 0 /\ activeTipPercent >= 0

(* bill * tipPercent / 100 of the inputs, as an amount, from the raw values *)
ExactTip == billRaw * activeTipPercent

ExactTotal == Amount(billRaw) + ExactTip

(* C1: with rounding mode None, for bill >= 0 and active tip percent >= 0
   (preset or custom) the tip is bill * tipPercent / 100 and the total is
   bill + tip; bill = 100 at the preset 15% gives tip 15.00, total 115.00. *)
C1_NoRounding ==
  /\ (roundingMode = ROUNDING_MODES.NONE /\ ValidInputs) =>
       /\ tipAmount = ExactTip
       /\ totalAmount = Amount(billRaw) + tipAmount
  /\ (roundingMode = ROUNDING_MODES.NONE /\ billInput = <<"1", "0", "0">>
        /\ customTipInput = <<>> /\ selectedTip = 15) =>
       (tipAmount = 15 * AMT /\ totalAmount = 115 * AMT)

C1_Witness ==
  /\ roundingMode = ROUNDING_MODES.NONE
  /\ billInput = <<"0", ".", "5">>
  /\ customTipInput = <<"2", ".", "5">>
  /\ tipAmount = 12500
  /\ totalAmount = 512500

(* C2: with rounding mode RoundTip, for bill >= 0 and tip percent >= 0 the
   tip is bill * tipPercent / 100 rounded to the nearest whole unit and the
   total is bill + that tip; bill = 33 at 15% gives tip 5.00, total 38.00. *)
C2_RoundTip ==
  /\ (roundingMode = ROUNDING_MODES.TIP /\ ValidInputs) =>
       /\ tipAmount = NearestWhole(ExactTip)
       /\ totalAmount = Amount(billRaw) + tipAmount
  /\ (roundingMode = ROUNDING_MODES.TIP /\ billInput = <<"3", "3">>
        /\ customTipInput = <<>> /\ selectedTip = 15) =>
       (tipAmount = 5 * AMT /\ totalAmount = 38 * AMT)

C2_Witness ==
  /\ roundingMode = ROUNDING_MODES.TIP
  /\ billInput = <<"3", "3">>
  /\ customTipInput = <<>>
  /\ selectedTip = 15
  /\ baseTipAmount = 4950000
  /\ tipAmount = 5 * AMT

(* C3: with rounding mode RoundTotal, for bill >= 0 and tip percent >= 0 the
   total is round(bill + bill * tipPercent / 100), a whole currency unit. *)
C3_RoundTotalIsWhole ==
  (roundingMode = ROUNDING_MODES.TOTAL /\ ValidInputs) =>
    (totalAmount = NearestWhole(ExactTotal) /\ totalAmount % AMT = 0)

(* C4: with rounding mode RoundTotal, for bill >= 0 and tip percent >= 0 the
   tip is max(0, round(baseTotal) - bill): the implied tip when the rounded
   total is at least the bill, and 0, never negative, when it is below. *)
C4_ImpliedTip ==
  (roundingMode = ROUNDING_MODES.TOTAL /\ ValidInputs) =>
    /\ tipAmount >= 0
    /\ NearestWhole(ExactTotal) >= Amount(billRaw) =>
         tipAmount = NearestWhole(ExactTotal) - Amount(billRaw)
    /\ NearestWhole(ExactTotal) < Amount(billRaw) => tipAmount = 0

C4_Witness ==
  /\ roundingMode = ROUNDING_MODES.TOTAL
  /\ billInput = <<"1", "0">>
  /\ customTipInput = <<"1">>
  /\ baseTotalAmount = 10100000
  /\ tipAmount = 0

(* C5: right after a preset p is selected the custom text is empty, the
   active tip percent is p and p is the only preset shown as pressed. *)
C5_SelectPreset ==
  event.name = "onSelectPreset" =>
    /\ customTipInput = <<>>
    /\ activeTipPercent = event.value * UNIT
    /\ \A q \in TIP_PRESETS : pressed(q) <=> q = event.value

C5_Witness ==
  /\ event.name = "onSelectPreset"
  /\ event.value = 20
  /\ pressed(20)
  /\ billInput # <<>>

(* C6: right after the custom tip text is changed to the empty text, the
   active tip percent is the preset clicked last (15 when none was clicked)
   and that preset is shown as pressed. *)
C6_ClearCustomRestores ==
  (event.name = "onCustomTipChange" /\ customTipInput = <<>>) =>
    /\ activeTipPercent = clicked * UNIT
    /\ pressed(clicked)

C6_Witness ==
  /\ event.name = "onCustomTipChange"
  /\ customTipInput = <<>>
  /\ clicked = 18
  /\ pressed(18)

(* C7: when the custom tip text is non-empty the active tip percent is the
   coerced custom value, whatever preset is selected; when it is empty the
   active tip percent is the selected preset. *)
C7_ActivePercent ==
  /\ customTipInput # <<>> => activeTipPercent = coerceNumber(customTipInput)
  /\ customTipInput = <<>> => activeTipPercent = selectedTip * UNIT

C7_Witness ==
  /\ customTipInput = <<"0">>
  /\ selectedTip = 20
  /\ activeTipPercent = 0

(* C8: exactly one tip source is active: with a non-empty custom text no
   preset is shown as pressed, with an empty custom text exactly one of the
   four presets is. *)
C8_OneTipSource ==
  /\ customTipInput # <<>> => \A p \in TIP_PRESETS : ~pressed(p)
  /\ customTipInput = <<>> => Cardinality({p \in TIP_PRESETS : pressed(p)}) = 1

C8_Witness ==
  /\ customTipInput = <<"2", "5">>
  /\ selectedTip = 18
  /\ \A p \in TIP_PRESETS : ~pressed(p)

(* The people count the text s stands for is an integer >= 1, written as the
   decimal text of that integer. *)
IsPeopleText(s) ==
  /\ s # <<>>
  /\ AllDigits(s)
  /\ DigitsValue(s) >= 1
  /\ s = String(DigitsValue(s))

(* C9: after every people-count edit the stored people text is the decimal
   text of an integer >= 1: "1" when the raw value is empty, non-numeric or
   <= 0, otherwise max(1, floor(n)); so the people count is an integer >= 1
   in every reachable state. *)
C9_PeopleNormalized ==
  /\ IsPeopleText(peopleInput)
  /\ peopleClamped >= 1
  /\ event.name = "onPeopleChange" =>
       /\ event.value \in {<<>>, <<"a", "b", "c">>, <<"0">>, <<"0", ".", "5">>}
            => peopleInput = <<"1">>
       /\ event.value = <<"2", ".", "7">> => peopleInput = <<"2">>
       /\ (Number(event.value).fin /\ Number(event.value).val >= UNIT)
            => /\ DigitsValue(peopleInput) * UNIT <= Number(event.value).val
               /\ Number(event.value).val < (DigitsValue(peopleInput) + 1) * UNIT

C9_Witness ==
  /\ event.name = "onPeopleChange"
  /\ event.value = <<"2", ".", "7">>
  /\ peopleInput = <<"2">>

(* C10: right after the people field is edited to a value below 1 or to a
   non-numeric text, the people field is in the error state. *)
C10_InvalidPeopleFlagged ==
  (event.name = "onPeopleChange"
     /\ (~Number(event.value).fin \/ Number(event.value).val < UNIT)) =>
    peopleHasError

(* The people count the people text stands for. *)
PeopleCount == DigitsValue(peopleInput)

(* C11: with a people count n > 1, in every rounding mode, tip per person is
   the overall (already rounded) tip divided by n and total per person is the
   overall total divided by n; bill = 33 at 15% with RoundTotal and n = 2
   gives 2.50 and 19.00. *)
C11_PerPersonFromRounded ==
  /\ PeopleCount > 1 =>
       /\ perPersonTip.den >= 1 /\ perPersonTotal.den >= 1
       /\ perPersonTip.num * PeopleCount = tipAmount * perPersonTip.den
       /\ perPersonTotal.num * PeopleCount = totalAmount * perPersonTotal.den
  /\ (PeopleCount = 2 /\ billInput = <<"3", "3">> /\ customTipInput = <<>>
        /\ selectedTip = 15 /\ roundingMode = ROUNDING_MODES.TOTAL) =>
       /\ perPersonTip = [num |-> 2500000, den |-> 1]
       /\ perPersonTotal = [num |-> 19000000, den |-> 1]

C11_Witness ==
  /\ PeopleCount = 2
  /\ billInput = <<"3", "3">>
  /\ customTipInput = <<>>
  /\ selectedTip = 15
  /\ roundingMode = ROUNDING_MODES.TOTAL
  /\ baseTipAmount = 4950000
  /\ perPersonTip = [num |-> 2500000, den |-> 1]

(* C12: the per-person rows are shown if and only if the people count is
   greater than 1; with one person only Tip Amount and Total are shown. *)
C12_PerPersonRows ==
  /\ {"Tip Amount", "Total"} \subseteq resultRows
  /\ "Tip / person" \in resultRows <=> PeopleCount > 1
  /\ "Total / person" \in resultRows <=> PeopleCount > 1
  /\ PeopleCount = 1 => resultRows = {"Tip Amount", "Total"}

C12_Witness ==
  /\ event.name = "onPeopleChange"
  /\ event.value = <<"1">>
  /\ billInput # <<>>
  /\ resultRows = {"Tip Amount", "Total"}

(* C13: all derived monetary values (tip, total, tip per person, total per
   person) are non-negative, for every bill text, tip source, people count
   and rounding mode. *)
C13_NonNegative ==
  /\ tipAmount >= 0
  /\ totalAmount >= 0
  /\ perPersonTip.num >= 0 /\ perPersonTip.den >= 1
  /\ perPersonTotal.num >= 0 /\ perPersonTotal.den >= 1

C13_Witness ==
  /\ billInput = <<"-", "1", "0">>
  /\ customTipInput = <<"-", "5">>
  /\ roundingMode = ROUNDING_MODES.TOTAL
  /\ PeopleCount = 2
  /\ tipAmount = 0
  /\ totalAmount = 0

(* C14: the bill error flag is true exactly when the bill text coerces to a
   negative number; with a negative bill the tip and the total are 0 for
   every tip source and rounding mode. *)
C14_NegativeBill ==
  /\ billHasError <=> (Number(billInput).fin /\ Number(billInput).val < 0)
  /\ (Number(billInput).fin /\ Number(billInput).val < 0) =>
       (tipAmount = 0 /\ totalAmount = 0)

C14_Witness ==
  /\ billInput = <<"-", "1", "0">>
  /\ billHasError
  /\ customTipInput = <<"2", "5">>
  /\ roundingMode = ROUNDING_MODES.TIP
  /\ tipAmount = 0

(* C15: the tip error flag is true exactly when the active tip percent is
   negative; then the percent used for calculation and the percent of the
   chip are 0, and with rounding None the tip is 0 and the total is the
   bill; bill = 100 with custom -5 gives tip 0.00, total 100.00. *)
C15_NegativeTip ==
  LET negative == /\ customTipInput # <<>>
                  /\ Number(customTipInput).fin
                  /\ Number(customTipInput).val < 0
  IN /\ tipHasError <=> negative
     /\ negative =>
          /\ tipPercentForCalc = 0
          /\ chipPercent = 0
          /\ roundingMode = ROUNDING_MODES.NONE =>
               (tipAmount = 0 /\ totalAmount = Amount(Max(0, billRaw)))
     /\ (negative /\ billInput = <<"1", "0", "0">>
           /\ roundingMode = ROUNDING_MODES.NONE) =>
          (tipAmount = 0 /\ totalAmount = 100 * AMT)

C15_Witness ==
  /\ billInput = <<"1", "0", "0">>
  /\ customTipInput = <<"-", "5">>
  /\ roundingMode = ROUNDING_MODES.NONE
  /\ tipHasError
  /\ totalAmount = 100 * AMT

(* C16: whenever the bill is 0 the tip and the total are 0, for every tip
   percent (preset or custom) and every rounding mode. *)
C16_ZeroBill ==
  (Number(billInput).fin /\ Number(billInput).val = 0) =>
    (tipAmount = 0 /\ totalAmount = 0)

C16_Witness ==
  /\ billInput = <<"0">>
  /\ customTipInput = <<"2", "5">>
  /\ roundingMode = ROUNDING_MODES.TOTAL
  /\ tipAmount = 0
  /\ totalAmount = 0

(* C17: coerceNumber maps empty, null, undefined and non-numeric text to 0
   and finite numeric text to its value, sign preserved; the derivation is
   defined for every input text, and an empty or non-numeric bill text gives
   tip 0, total 0 and no bill error. *)
C17_CoerceNumber ==
  /\ coerceNumber(<<>>) = 0 /\ coerceNumber(Null) = 0
  /\ coerceNumber(Undefined) = 0
  /\ billInput = <<"a", "b", "c">> => billRaw = 0
  /\ customTipInput = <<"x", "y", "z">> => customTipRaw = 0
  /\ billInput = <<"-", "1", "0">> => billRaw = 0 - 10 * UNIT
  /\ customTipInput = <<"-", "5">> => customTipRaw = 0 - 5 * UNIT
  /\ customTipInput = <<"2", ".", "5">> => 2 * customTipRaw = 5 * UNIT
  /\ \A k \in 0..MaxBill :
       /\ billInput = String(k) => billRaw = k * UNIT
       /\ billInput = String(k) \o <<".", "5">> => 2 * billRaw = (2 * k + 1) * UNIT
  /\ tipAmount \in Int /\ totalAmount \in Int /\ peopleClamped \in Int
  /\ billInput \in {<<>>, <<"a", "b", "c">>} =>
       (tipAmount = 0 /\ totalAmount = 0 /\ ~billHasError)

C17_Witness ==
  /\ billInput = <<"a", "b", "c">>
  /\ customTipInput = <<"x", "y", "z">>
  /\ event.name = "onCustomTipChange"
  /\ tipAmount = 0
  /\ ~billHasError

(* The outputs as a function of the current inputs alone. *)
OutputsOfInputs ==
  [tipAmount |-> tipAmount,
   totalAmount |-> totalAmount,
   perPersonTip |-> perPersonTip,
   perPersonTotal |-> perPersonTotal,
   chipPercent |-> chipPercent,
   pressed |-> {pct \in TIP_PRESETS : pressed(pct)},
   billHasError |-> billHasError,
   tipHasError |-> tipHasError,
   peopleHasError |-> peopleHasError,
   perPersonRows |-> "Tip / person" \in resultRows]

(* C18: all displayed outputs (tip, total, per-person values, active
   percent, pressed preset, error flags) are a function of the current
   inputs only: what a render shows after any history of events, with the
   memoized values it reuses, is what the inputs alone determine. *)
C18_OutputsFromInputs == shown = OutputsOfInputs

C18_Witness ==
  /\ event.name = "onRoundingModeChange"
  /\ roundingMode = ROUNDING_MODES.TIP
  /\ billInput = <<"3", "3">>
  /\ customTipInput = <<>>
  /\ selectedTip = 15
  /\ memo.baseTipAmount.val = 4950000
  /\ shown.tipAmount = 5 * AMT

(* C19: a blur of the people field that carries the field's current value
   leaves the people text and all other component state unchanged; so a
   second blur changes nothing either, and a blur after an edit keeps what
   the edit stored. *)
C19_BlurIdempotent ==
  [][(event'.name = "onPeopleBlur" /\ event'.value = peopleInput) =>
       UNCHANGED <<billInput, selectedTip, customTipInput, lastPresetTipRef,
                   peopleInput, roundingMode, memo>>]_vars

C19_Witness ==
  /\ event.name = "onPeopleBlur"
  /\ event.value = <<"2">>
  /\ peopleInput = <<"2">>

(* C20: the last-preset memory is changed only by a preset selection: bill
   edits, custom-tip edits, people edits and blurs and rounding-mode changes
   leave it unchanged, so it persists while custom is active. *)
C20_LastPresetFrame ==
  [][event'.name # "onSelectPreset" => lastPresetTipRef' = lastPresetTipRef]_vars

C20_Witness ==
  /\ lastPresetTipRef = 18
  /\ customTipInput = <<>>
  /\ event.name = "onCustomTipChange"
  /\ billInput = <<"1", "0">>

(* |a - b| *)
Dist(a, b) == IF a >= b THEN a - b ELSE b - a

(* r is the whole amount nearest to the amount x, an exact half going up *)
IsRounded(x, r) ==
  /\ r % AMT = 0
  /\ 2 * Dist(r, x) <= AMT
  /\ x % AMT = AMT \div 2 => r = x + AMT \div 2

(* C21: roundToWholeCurrency returns for every amount x >= 0 the integer
   nearest to x, an exact half (k + 0.5) going up to k + 1; with RoundTip a
   base tip of 2.50 gives the tip 3. *)
C21_RoundHalfUp ==
  /\ IsRounded(baseTipAmount, roundToWholeCurrency(baseTipAmount))
  /\ IsRounded(baseTotalAmount, roundToWholeCurrency(baseTotalAmount))
  /\ (roundingMode = ROUNDING_MODES.TIP /\ baseTipAmount = 2500000) =>
       tipAmount = 3 * AMT

C21_Witness ==
  /\ roundingMode = ROUNDING_MODES.TIP
  /\ billInput = <<"1", "0">>
  /\ customTipInput = <<"2", "5">>
  /\ baseTipAmount = 2500000
  /\ tipAmount = 3 * AMT

(* C23: the selected preset equals the last-preset memory and is one of
   10, 15, 18, 20 in every reachable state; a custom-tip edit never changes
   the selected preset (so the restore on clearing changes nothing); the tip
   error flag is true only while custom is active. *)
C23_SelectedIsLastPreset ==
  /\ [](/\ selectedTip = lastPresetTipRef
        /\ selectedTip \in TIP_PRESETS
        /\ tipHasError => customTipInput # <<>>)
  /\ [][event'.name = "onCustomTipChange" => selectedTip' = selectedTip]_vars

C23_Witness ==
  /\ event.name = "onCustomTipChange"
  /\ customTipInput = <<>>
  /\ selectedTip = 20
  /\ lastPresetTipRef = 20
  /\ roundingMode = ROUNDING_MODES.TIP

C26_TipWithinHalfUnit ==
  (roundingMode \in {ROUNDING_MODES.TIP, ROUNDING_MODES.TOTAL} /\ ValidInputs) =>
    2 * Dist(tipAmount, ExactTip) <= AMT

C26_Witness ==
  /\ roundingMode = ROUNDING_MODES.TOTAL
  /\ billInput = <<"2", ".", "4">>
  /\ customTipInput = <<"1">>
  /\ roundedTotal < billAmount
  /\ tipAmount = 0
  /\ ExactTip = 24000

(* the outputs the two versions have in common, as the current one shows them *)
CommonShown ==
  [tipAmount |-> shown.tipAmount,
   totalAmount |-> shown.totalAmount,
   chipPercent |-> shown.chipPercent,
   pressed |-> shown.pressed,
   billHasError |-> shown.billHasError,
   tipHasError |-> shown.tipHasError]

(* C22: with rounding mode None and one person, the current App, run beside
   the earlier App on the same bill edits, preset selections and custom-tip
   edits, shows the same tip, total, active percent, pressed preset and
   bill/tip error flags, and shows no per-person rows. *)
C22_RefinesEarlierApp ==
  (roundingMode = ROUNDING_MODES.NONE /\ PeopleCount = 1) =>
    /\ CommonShown = earlierShown
    /\ ~shown.perPersonRows
    /\ "Tip / person" \notin resultRows

C22_Witness ==
  /\ roundingMode = ROUNDING_MODES.NONE
  /\ PeopleCount = 1
  /\ event.name = "onCustomTipChange"
  /\ earlier.customTipInput = <<"2", ".", "5">>
  /\ earlier.selectedTip = 18
  /\ earlier.billInput = <<"1", "0", "0">>
  /\ shown.tipAmount = 2500000
  /\ earlierShown.tipAmount = 2500000

====
